---- MODULE Spec2Model ----
(***************************************************************************)
(* A model of the chunking and recombination pipeline of the audio         *)
(* transcription app: AudioProcessor.split_audio_intelligently and its     *)
(* helpers (src/audio_processor.py),                                       *)
(* TranscriptionProcessor.combine_transcriptions and its helpers           *)
(* (src/transcription_utils.py), and the run that joins them:              *)
(* process_transcription (src/app.py) with AudioProcessor's                *)
(* validate_audio_file and WhisperClient's transcribe_chunk and            *)
(* transcribe_audio_file (src/whisper_client.py); and of                   *)
(* WhisperClient.validate_api_key.                                         *)
(*                                                                         *)
(* Specifications.  SpecPlan: split_audio_intelligently on a stream.       *)
(* SpecCombine: combine_transcriptions on a list of chunk results.         *)
(* SpecRun: process_transcription from the upload to the combined result.  *)
(* SpecKey: validate_api_key.  SpecFloat: _split_by_time in floats.        *)
(*                                                                         *)
(* Audio.  An AudioSegment is [len, rate]: its length in milliseconds      *)
(* (len(segment)) and the bytes of raw samples per millisecond             *)
(* (frame_rate * channels * sample_width / 1000), so that                  *)
(* len(segment.raw_data) = len * rate.  A slice keeps the rate.            *)
(*                                                                         *)
(* Chunks.  A chunk is the pair (AudioSegment, metadata) of the code as    *)
(* one record: audio_len is len(chunk); origin is the position in the      *)
(* stream, in ms, of the first sample the chunk was sliced from; lead_pad  *)
(* is the ms of silence _add_overlap_to_chunks put in front of it; the     *)
(* other fields are the metadata dict.                                     *)
(*                                                                         *)
(* Time.  The code holds start_time, end_time and duration as float        *)
(* seconds.  target_chunk_duration = total_duration / estimated_chunks is  *)
(* in general no whole number of milliseconds, so the model holds every    *)
(* time of a run as an exact rational: a whole number of ticks, one tick   *)
(* being 1/den millisecond, den = estimated_chunks of the run.  int(t *    *)
(* 1000) is then t \div den.  SpecPlan, SpecCombine and SpecRun leave the  *)
(* rounding of the floats out.  SpecFloat runs the loop of _split_by_time  *)
(* with the arithmetic of Python's float (IEEE 754 binary64, round to      *)
(* nearest, ties to even) on the bits: there a sum of float targets can    *)
(* fall short of total_duration by a rounding error.                       *)
(***************************************************************************)
EXTENDS Integers, Sequences, FiniteSets, TLC

VARIABLES
    pc,               \* position in the handler being run
    run,              \* process_transcription: the upload, the loop and the client
    audio,            \* the validated AudioSegment handed to the planner
    settings,         \* max_chunk_size_mb, overlap_seconds, force_time_based
    silence_outcome,  \* how _split_on_silence ended, "untried" before it ran
    tiled,            \* the chunk list as the segmenter returned it (before overlap)
    chunks,           \* the chunk list split_audio_intelligently holds / returns
    chunk_results,    \* the list handed to combine_transcriptions
    combined,         \* what combine_transcriptions did: a result, or an exception
    recombined,       \* what a second call on the same list did
    silence_pieces,   \* what pydub's split_on_silence returned to _split_on_silence
    alarm             \* signal.alarm: seconds pending, and how often it was armed

vars ==
    <<pc, run, audio, settings, silence_outcome, tiled, chunks, chunk_results,
      combined, recombined, silence_pieces, alarm>>

(***************************************************************************)
(* Bounds of the model.                                                    *)
(***************************************************************************)
MaxPieces == 3   \* most non-silent ranges pydub finds in one stream
Grain == 16      \* the sound of a stream is cut at CutPoints / Grain of it
MaxChunks == 3   \* most chunk results handed to combine_transcriptions

(***************************************************************************)
(* Program constants.                                                      *)
(***************************************************************************)
BytesPerMB == 1048576          \* 1024 * 1024
MsPerSecond == 1000
SilenceMaxSeconds == 600       \* silence detection only under 10 minutes
LargeFileSeconds == 300        \* "large file" settings over 5 minutes
MinSilenceLenLarge == 2000
MinSilenceLenSmall == 1000
KeepSilence == 500
OverlapDivisor == 4            \* len(chunk) // 4: at most 25% of the chunk
MaxOverlapWords == 10

(***************************************************************************)
(* The inputs the model draws from.                                        *)
(***************************************************************************)
AudioLens == {5000, 60000, 131072, 131073, 262100, 400001, 700000}   \* ms, all >= 1 s
AudioRates == {16, 192}       \* 8 kHz mono 16 bit; 48 kHz stereo 16 bit
ChunkSizesMB == {10, 24}      \* the slider's range is 10..24
OverlapSeconds == {1, 3, 5}   \* the slider's range is 1..5
EdgeSilences == {0, 3000, 12000}   \* ms of silence before the first / after the last sound
CutPoints == {1, 8}           \* where a stream's sound is cut, in 1/Grain of it
ExtraGaps == {0, 5000}        \* ms by which a silence exceeds min_silence_len

Min(a, b) == IF a <= b THEN a ELSE b
Max(a, b) == IF a >= b THEN a ELSE b

RECURSIVE SumSeq(_)
SumSeq(s) == IF s = <<>> THEN 0 ELSE Head(s) + SumSeq(Tail(s))

(***************************************************************************)
(* AudioProcessor.__init__, needs_chunking and the first lines of          *)
(* split_audio_intelligently.                                              *)
(***************************************************************************)
RawBytes(a) == a.len * a.rate

max_chunk_size_bytes(s) == s.max_chunk_size_mb * BytesPerMB

\* Mutant of needs_chunking: a stream of exactly the max size is chunked too.
needs_chunking_at_equal(a, s) == RawBytes(a) >= s.max_chunk_size_mb * BytesPerMB

\* len(raw_data) / (1024 * 1024) > max_chunk_size_mb; the division is by a power
\* of two, so the float comparison is the integer one.
needs_chunking(a, s) == RawBytes(a) > max_chunk_size_bytes(s)

estimated_chunks(a, s) == Max(1, (RawBytes(a) \div max_chunk_size_bytes(s)) + 1)

\* Ticks per millisecond of the run (see "Time" above).
Den(a, s) == IF needs_chunking(a, s) THEN estimated_chunks(a, s) ELSE 1

\* total_duration, in ticks.
total_duration(a, s) == a.len * Den(a, s)

\* total_duration / estimated_chunks, in ticks: exact, since a tick is
\* 1 / estimated_chunks ms.
target_chunk_duration(a, s) == a.len

should_try_silence(a, s) ==
    /\ ~s.force_time_based
    /\ a.len < SilenceMaxSeconds * MsPerSecond

SingleChunk(a, s) ==
    << [audio_len    |-> a.len,
        origin       |-> 0,
        lead_pad     |-> 0,
        chunk_index  |-> 0,
        start_time   |-> 0,
        end_time     |-> a.len * Den(a, s),
        duration     |-> a.len * Den(a, s),
        split_method |-> "single_chunk"] >>

(***************************************************************************)
(* _split_by_time: the while loop, from start_time on.  seg_len is         *)
(* len(audio_segment) in ms, target and start_time are in ticks.           *)
(***************************************************************************)
RECURSIVE SplitByTimeFrom(_, _, _, _, _)
SplitByTimeFrom(seg_len, target, den, start_time, chunk_index) ==
    IF ~(start_time < seg_len * den)
    THEN <<>>
    ELSE LET end_time == Min(start_time + target, seg_len * den)
             start_ms == start_time \div den
             end_ms   == end_time \div den
             chunk_len == end_ms - start_ms
         IN  << [audio_len    |-> chunk_len,
                 origin       |-> start_ms,
                 lead_pad     |-> 0,
                 chunk_index  |-> chunk_index,
                 start_time   |-> start_time,
                 end_time     |-> end_time,
                 duration     |-> chunk_len * den,
                 split_method |-> "time"] >>
             \o SplitByTimeFrom(seg_len, target, den, end_time, chunk_index + 1)

split_by_time(seg_len, target, den) == SplitByTimeFrom(seg_len, target, den, 0, 0)

(***************************************************************************)
(* pydub.silence.split_on_silence(audio, min_silence_len, silence_thresh,  *)
(* keep_silence=500), the library call of _split_on_silence.  ranges is    *)
(* what detect_nonsilent finds: the non-silent [start, end] ranges of the  *)
(* stream in ms, in order, any two separated by a silence of at least      *)
(* min_silence_len.  Each range is widened by keep_silence on both sides,  *)
(* two widened ranges that overlap meet at their midpoint, and each is     *)
(* clipped to the stream: silence beyond keep_silence is in no piece.      *)
(* The result is the sequence of the pieces: from, the position of the     *)
(* piece in the stream, and len, its length, both in ms.                   *)
(***************************************************************************)
split_on_silence(audio_len, ranges) ==
    LET n == Len(ranges)
        lo(i) == ranges[i].start - KeepSilence
        hi(i) == ranges[i].end + KeepSilence
        from(i) == IF i > 1 /\ lo(i) < hi(i - 1)
                   THEN (hi(i - 1) + lo(i)) \div 2 ELSE lo(i)
        to(i) == IF i < n /\ lo(i + 1) < hi(i)
                 THEN (hi(i) + lo(i + 1)) \div 2 ELSE hi(i)
    IN  [i \in 1..n |-> [from |-> Max(from(i), 0),
                         len  |-> Min(to(i), audio_len) - Max(from(i), 0)]]

\* min_silence_len as _split_on_silence chooses it.
min_silence_len(audio_len) ==
    IF audio_len > LargeFileSeconds * MsPerSecond
    THEN MinSilenceLenLarge ELSE MinSilenceLenSmall

RECURSIVE SetToSeq(_)
SetToSeq(S) ==
    IF S = {} THEN <<>>
    ELSE LET m == CHOOSE x \in S : \A y \in S : x <= y
         IN  <<m>> \o SetToSeq(S \ {m})

\* The non-silent ranges of a stream of audio_len ms with k sounds: lead and
\* trail ms of silence at the ends, gaps[i] ms of silence after sound i, and
\* the sound cut at cuts[i] / Grain of its total length.
RangesOf(audio_len, lead, trail, gaps, cuts) ==
    LET k == Len(cuts) + 1
        sound == audio_len - lead - trail - SumSeq(gaps)
        cut(i) == IF i = 0 THEN 0
                  ELSE IF i = k THEN sound
                  ELSE (sound * cuts[i]) \div Grain
        before(i) == lead + SumSeq(SubSeq(gaps, 1, i - 1))
    IN  [i \in 1..k |-> [start |-> before(i) + cut(i - 1),
                         end   |-> before(i) + cut(i)]]

\* The streams the model gives to split_on_silence: up to MaxPieces sounds.
\* A stream with no sound is the empty sequence of ranges.
GapSeqs(audio_len) ==
    UNION { [1..j -> {min_silence_len(audio_len) + e : e \in ExtraGaps}]
            : j \in 0..(MaxPieces - 1) }

NonsilentLayouts(audio_len) ==
    {<<>>} \cup
    { RangesOf(audio_len, x[1], x[2], x[3], SetToSeq(x[4])) :
        x \in { y \in EdgeSilences \X EdgeSilences \X GapSeqs(audio_len)
                        \X (SUBSET CutPoints) :
                  /\ Cardinality(y[4]) = Len(y[3])
                  /\ audio_len - y[1] - y[2] - SumSeq(y[3]) >= Grain } }

(***************************************************************************)
(* _split_on_silence, after split_on_silence returned pieces: the loop     *)
(* over the pieces from the piece at position 1 of pieces on, with the     *)
(* running chunk_index and current_time.                                   *)
(***************************************************************************)
\* Mutant of RelabelTimeChunks: the chunks keep the chunk_index that
\* _split_by_time gave them within the piece.
RelabelTimeChunksOwnIndex(time_chunks, piece_from, chunk_index, current_time) ==
    [j \in 1..Len(time_chunks) |->
        LET before == SumSeq([m \in 1..(j - 1) |-> time_chunks[m].duration])
        IN  [time_chunks[j] EXCEPT
                !.origin       = piece_from + time_chunks[j].origin,
                !.start_time   = current_time + before,
                !.end_time     = current_time + before + time_chunks[j].duration,
                !.split_method = "time_fallback"]]

\* The inner loop: the chunks _split_by_time gave for one piece, relabelled.
\* piece_from is where the piece lies in the stream.
RelabelTimeChunks(time_chunks, piece_from, chunk_index, current_time) ==
    [j \in 1..Len(time_chunks) |->
        LET before == SumSeq([m \in 1..(j - 1) |-> time_chunks[m].duration])
        IN  [time_chunks[j] EXCEPT
                !.origin       = piece_from + time_chunks[j].origin,
                !.chunk_index  = chunk_index + (j - 1),
                !.start_time   = current_time + before,
                !.end_time     = current_time + before + time_chunks[j].duration,
                !.split_method = "time_fallback"]]

\* Mutant of within_reasonable_range: pieces of up to twice the target are kept.
within_double_range(chunk_duration, target) == chunk_duration <= target * 2

\* chunk_duration <= target_duration * 1.5
within_reasonable_range(chunk_duration, target) == chunk_duration * 2 <= target * 3

RECURSIVE SilenceLoop(_, _, _, _, _)
SilenceLoop(pieces, target, den, chunk_index, current_time) ==
    IF pieces = <<>> THEN <<>>
    ELSE LET chunk_len == Head(pieces).len
             chunk_duration == chunk_len * den
             time_chunks == split_by_time(chunk_len, target, den)
             added ==
                 IF within_reasonable_range(chunk_duration, target)
                 THEN << [audio_len    |-> chunk_len,
                          origin       |-> Head(pieces).from,
                          lead_pad     |-> 0,
                          chunk_index  |-> chunk_index,
                          start_time   |-> current_time,
                          end_time     |-> current_time + chunk_duration,
                          duration     |-> chunk_duration,
                          split_method |-> "silence"] >>
                 ELSE RelabelTimeChunks(time_chunks, Head(pieces).from,
                                        chunk_index, current_time)
         IN  added \o SilenceLoop(Tail(pieces), target, den,
                                  chunk_index + Len(added),
                                  current_time
                                  + SumSeq([m \in 1..Len(added) |->
                                               added[m].duration]))

\* What _split_on_silence returns: outcome is how the try block ended.
split_on_silence_result(outcome, pieces, target, den) ==
    IF outcome = "chunks" THEN SilenceLoop(pieces, target, den, 0, 0)
    ELSE <<>>     \* "none": not chunks; the others: the except clauses

(***************************************************************************)
(* The alarm of _split_on_silence.  signal.alarm(n) with n > 0 arms the    *)
(* one alarm of the process for n seconds, signal.alarm(0) cancels it; an  *)
(* alarm that went off is no longer pending.                               *)
(***************************************************************************)
AlarmSeconds == 30

NoAlarm == [pending |-> 0, armed |-> 0]

signal_alarm(a, seconds) ==
    [pending |-> seconds, armed |-> a.armed + (IF seconds > 0 THEN 1 ELSE 0)]

\* The alarm went off: timeout_handler raises TimeoutError.
alarm_fired(a) == [a EXCEPT !.pending = 0]

\* Mutant of alarm_after: "except Exception" does not cancel the alarm.
alarm_after_no_cancel_on_error(a, outcome) ==
    IF outcome = "no_signal" THEN signal_alarm(a, 0)
    ELSE IF outcome = "timeout"
    THEN signal_alarm(alarm_fired(signal_alarm(a, AlarmSeconds)), 0)
    ELSE IF outcome = "error" THEN signal_alarm(a, AlarmSeconds)
    ELSE signal_alarm(signal_alarm(a, AlarmSeconds), 0)

\* The alarm when _split_on_silence returns, by the way its try block ended:
\* "no_signal": signal.signal raised before signal.alarm(30) (it does so off
\* the main thread), except Exception cancels; "timeout": the alarm went off,
\* except TimeoutError cancels; "error": something else raised with the alarm
\* armed, except Exception cancels; "chunks", "none": split_on_silence
\* returned and the next statement cancels.
alarm_after(a, outcome) ==
    IF outcome = "no_signal" THEN signal_alarm(a, 0)
    ELSE IF outcome = "timeout"
    THEN signal_alarm(alarm_fired(signal_alarm(a, AlarmSeconds)), 0)
    ELSE signal_alarm(signal_alarm(a, AlarmSeconds), 0)

(***************************************************************************)
(* _add_overlap_to_chunks.  AudioSegment.silent(duration = d) is d ms of   *)
(* audio, so the padded chunk is d ms longer for each pad.                 *)
(***************************************************************************)
\* Mutant of overlap_duration: the 25% cap is left out.
overlap_duration_uncapped(c, overlap_seconds) == overlap_seconds * MsPerSecond

overlap_duration(c, overlap_seconds) ==
    Min(overlap_seconds * MsPerSecond, c.audio_len \div OverlapDivisor)

\* Mutant of add_overlap_to_chunks: every chunk is padded at both ends.
add_overlap_at_both_ends(cs, overlap_seconds, den) ==
    IF Len(cs) <= 1 THEN cs
    ELSE [i \in 1..Len(cs) |->
            LET c  == cs[i]
                od == overlap_duration(c, overlap_seconds)
            IN  [c EXCEPT !.audio_len  = od + c.audio_len + od,
                          !.lead_pad   = od,
                          !.start_time = c.start_time - od * den,
                          !.end_time   = c.end_time + od * den,
                          !.duration   = (od + c.audio_len + od) * den]]

add_overlap_to_chunks(cs, overlap_seconds, den) ==
    IF Len(cs) <= 1 THEN cs
    ELSE [i \in 1..Len(cs) |->
            LET c  == cs[i]
                od == overlap_duration(c, overlap_seconds)
            IN  IF i = 1
                THEN [c EXCEPT !.audio_len = c.audio_len + od,
                               !.end_time  = c.end_time + od * den,
                               !.duration  = (c.audio_len + od) * den]
                ELSE IF i = Len(cs)
                THEN [c EXCEPT !.audio_len  = od + c.audio_len,
                               !.lead_pad   = od,
                               !.start_time = c.start_time - od * den,
                               !.duration   = (od + c.audio_len) * den]
                ELSE [c EXCEPT !.audio_len  = od + c.audio_len + od,
                               !.lead_pad   = od,
                               !.start_time = c.start_time - od * den,
                               !.end_time   = c.end_time + od * den,
                               !.duration   = (od + c.audio_len + od) * den]]

\* Mutant of silence_succeeded: the empty result is used, with no fallback.
silence_always_used(silence_chunks) == TRUE

\* if silence_chunks: ... else: fall back to time-based splitting
silence_succeeded(silence_chunks) == silence_chunks # <<>>

(***************************************************************************)
(* split_audio_intelligently, step by step.                                *)
(***************************************************************************)
NoResult == [outcome |-> "none"]

\* transcribe_audio_file after its last failed attempt.
FailedResponse == [ok |-> FALSE, text |-> <<>>, language |-> "None"]

\* The run before process_transcription has validated anything: no upload, no
\* chunk in transcription, no temporary file.
NoAudio == [len |-> 0, rate |-> 0]
NoFile == [name |-> <<>>, size |-> 0, decodable |-> FALSE, audio |-> NoAudio]
NotValidated == [is_valid |-> FALSE, message |-> "", audio_segment |-> <<>>]
IdleRun ==
    [file            |-> NoFile,        \* uploaded_file
     pydub_available |-> TRUE,          \* PYDUB_AVAILABLE
     validation      |-> NotValidated,  \* what validate_audio_file returned
     i               |-> 0,             \* the loop index of process_transcription
     attempt         |-> 0,             \* the loop index of transcribe_audio_file
     api_calls       |-> 0,             \* requests sent for the current chunk
     requests        |-> 0,             \* requests sent since the run began
     sleeps          |-> <<>>,          \* time.sleep calls for the current chunk, s
     temp_files      |-> {},            \* chunk indexes whose temp file exists
     answer          |-> FailedResponse, \* what transcribe_audio_file returned
     api_key         |-> "none",        \* validate_api_key: the key of the client
     errors          |-> <<>>,          \* the error_msg of each failed attempt
     is_valid        |-> "unset"]       \* what validate_api_key returned

PlanInit ==
    /\ pc = "plan"
    /\ run = IdleRun
    /\ audio \in [len : AudioLens, rate : AudioRates]
    /\ settings \in [max_chunk_size_mb : ChunkSizesMB,
                     overlap_seconds   : OverlapSeconds,
                     force_time_based  : BOOLEAN]
    /\ silence_outcome = "untried"
    /\ silence_pieces = <<>>
    /\ alarm = NoAlarm
    /\ tiled = <<>>
    /\ chunks = <<>>
    /\ chunk_results = <<>>
    /\ combined = NoResult
    /\ recombined = NoResult

\* not needs_chunking: the single chunk is returned at once.
PlanSingle ==
    /\ pc = "plan"
    /\ ~needs_chunking(audio, settings)
    /\ chunks' = SingleChunk(audio, settings)
    /\ tiled' = chunks'
    /\ pc' = "done"
    /\ UNCHANGED <<run, audio, settings, silence_outcome, silence_pieces, alarm,
                   chunk_results, combined, recombined>>

\* should_try_silence: _split_on_silence runs and ends as outcome says.
TrySilence(outcome, ranges) ==
    /\ pc = "plan"
    /\ needs_chunking(audio, settings)
    /\ should_try_silence(audio, settings)
    /\ LET silence_chunks ==
               split_on_silence_result(outcome,
                                       split_on_silence(audio.len, ranges),
                                       target_chunk_duration(audio, settings),
                                       Den(audio, settings))
       IN  IF silence_succeeded(silence_chunks)
           THEN /\ chunks' = silence_chunks
                /\ tiled' = silence_chunks
                /\ pc' = "overlap"
           ELSE /\ UNCHANGED <<chunks, tiled>>
                /\ pc' = "fallback"
    /\ silence_outcome' = outcome
    /\ silence_pieces' = IF outcome \in {"chunks", "none"}
                         THEN split_on_silence(audio.len, ranges) ELSE <<>>
    /\ alarm' = alarm_after(alarm, outcome)
    /\ UNCHANGED <<run, audio, settings, chunk_results, combined, recombined>>

\* split_on_silence found pieces.
SilenceFound ==
    /\ pc = "plan"
    /\ \E ranges \in NonsilentLayouts(audio.len) \ {<<>>} :
          TrySilence("chunks", ranges)

\* split_on_silence returned no piece: "not chunks".
SilenceNone == TrySilence("none", <<>>)

\* The alarm went off inside the try block: except TimeoutError.
SilenceTimeout ==
    /\ pc = "plan"
    /\ \E ranges \in NonsilentLayouts(audio.len) : TrySilence("timeout", ranges)

\* Anything else was raised inside the try block: except Exception.
SilenceError ==
    /\ pc = "plan"
    /\ \E ranges \in NonsilentLayouts(audio.len) : TrySilence("error", ranges)

\* signal.signal raised before the alarm was armed: except Exception.
SilenceNoSignal == TrySilence("no_signal", <<>>)

\* The else branch of "if silence_chunks".
FallbackTime ==
    /\ pc = "fallback"
    /\ chunks' = split_by_time(audio.len, target_chunk_duration(audio, settings),
                               Den(audio, settings))
    /\ tiled' = chunks'
    /\ pc' = "overlap"
    /\ UNCHANGED <<run, audio, settings, silence_outcome, silence_pieces, alarm,
                   chunk_results, combined, recombined>>

\* not should_try_silence: time-based splitting directly.
DirectTime ==
    /\ pc = "plan"
    /\ needs_chunking(audio, settings)
    /\ ~should_try_silence(audio, settings)
    /\ chunks' = split_by_time(audio.len, target_chunk_duration(audio, settings),
                               Den(audio, settings))
    /\ tiled' = chunks'
    /\ pc' = "overlap"
    /\ UNCHANGED <<run, audio, settings, silence_outcome, silence_pieces, alarm,
                   chunk_results, combined, recombined>>

\* chunks_with_overlap = self._add_overlap_to_chunks(chunks); return.
AddOverlap ==
    /\ pc = "overlap"
    /\ chunks' = add_overlap_to_chunks(chunks, settings.overlap_seconds,
                                       Den(audio, settings))
    /\ pc' = "done"
    /\ UNCHANGED <<run, audio, settings, silence_outcome, silence_pieces, alarm,
                   tiled, chunk_results, combined, recombined>>

PlanNext ==
    \/ PlanSingle
    \/ SilenceFound
    \/ SilenceNone
    \/ SilenceTimeout
    \/ SilenceError
    \/ SilenceNoSignal
    \/ FallbackTime
    \/ DirectTime
    \/ AddOverlap

SpecPlan == PlanInit /\ [][PlanNext]_vars

(***************************************************************************)
(* Text.  A Python str is a sequence of one-character strings; the model   *)
(* uses the characters "a", "b" and " ".  str.strip(), str.split() and     *)
(* ' '.join(parts) do what Python does with them.                          *)
(***************************************************************************)
IsSpace(c) == c = " "

RECURSIVE LStrip(_)
LStrip(t) == IF t # <<>> /\ IsSpace(Head(t)) THEN LStrip(Tail(t)) ELSE t

RECURSIVE RStrip(_)
RStrip(t) ==
    IF t # <<>> /\ IsSpace(t[Len(t)]) THEN RStrip(SubSeq(t, 1, Len(t) - 1)) ELSE t

Strip(t) == RStrip(LStrip(t))

\* The length of the first word of t, which starts with no space.
RECURSIVE WordLen(_)
WordLen(t) == IF t = <<>> \/ IsSpace(Head(t)) THEN 0 ELSE 1 + WordLen(Tail(t))

\* t.split(): the words of t between runs of whitespace.
RECURSIVE Split(_)
Split(t) ==
    LET u == LStrip(t)
        n == WordLen(u)
    IN  IF u = <<>> THEN <<>>
        ELSE <<SubSeq(u, 1, n)>> \o Split(SubSeq(u, n + 1, Len(u)))

\* ' '.join(parts)
RECURSIVE Join(_)
Join(parts) ==
    IF parts = <<>> THEN <<>>
    ELSE IF Len(parts) = 1 THEN parts[1]
    ELSE parts[1] \o <<" ">> \o Join(Tail(parts))

(***************************************************************************)
(* TranscriptionProcessor._remove_text_overlap                             *)
(***************************************************************************)
\* The largest overlap_len in 1..max_overlap with
\* prev_words[-overlap_len:] = curr_words[:overlap_len], or 0.
RECURSIVE FindOverlap(_, _, _)
FindOverlap(prev_words, curr_words, overlap_len) ==
    IF overlap_len <= 0 THEN 0
    ELSE IF SubSeq(prev_words, Len(prev_words) - overlap_len + 1, Len(prev_words))
            = SubSeq(curr_words, 1, overlap_len)
         THEN overlap_len
         ELSE FindOverlap(prev_words, curr_words, overlap_len - 1)

max_overlap(prev_words, curr_words) ==
    Min(Min(Len(prev_words), Len(curr_words)), MaxOverlapWords)

remove_text_overlap(previous_text, current_text) ==
    IF previous_text = <<>> \/ current_text = <<>> THEN current_text
    ELSE LET prev_words == Split(previous_text)
             curr_words == Split(current_text)
             overlap_len == FindOverlap(prev_words, curr_words,
                                        max_overlap(prev_words, curr_words))
         IN  IF overlap_len > 0
             THEN Join(SubSeq(curr_words, overlap_len + 1, Len(curr_words)))
             ELSE current_text

(***************************************************************************)
(* sorted(results, key = chunk_index): a stable insertion sort.            *)
(***************************************************************************)
RECURSIVE InsertByIndex(_, _)
InsertByIndex(sorted, r) ==
    IF sorted = <<>> THEN <<r>>
    ELSE IF sorted[Len(sorted)].chunk_index <= r.chunk_index
         THEN Append(sorted, r)
         ELSE Append(InsertByIndex(SubSeq(sorted, 1, Len(sorted) - 1), r),
                     sorted[Len(sorted)])

RECURSIVE SortedByChunkIndex(_)
SortedByChunkIndex(results) ==
    IF results = <<>> THEN <<>>
    ELSE InsertByIndex(SortedByChunkIndex(SubSeq(results, 1, Len(results) - 1)),
                       results[Len(results)])

(***************************************************************************)
(* TranscriptionProcessor._combine_text: the loop from position i of       *)
(* sorted_results on (i is 1-based here, 0-based in the code), with        *)
(* combined_parts so far.  combined_parts[-1] of an empty list raises      *)
(* IndexError.                                                             *)
(***************************************************************************)
\* The text the overlap of the next chunk is looked for in.
previous_part(combined_parts) == combined_parts[Len(combined_parts)]

RECURSIVE CombineTextLoop(_, _, _)
CombineTextLoop(sorted_results, i, combined_parts) ==
    IF i > Len(sorted_results)
    THEN [outcome |-> "returned", text |-> Join(combined_parts)]
    ELSE LET text == Strip(sorted_results[i].text)
         IN  IF text = <<>>
             THEN CombineTextLoop(sorted_results, i + 1, combined_parts)
             ELSE IF i = 1
             THEN CombineTextLoop(sorted_results, i + 1, Append(combined_parts, text))
             ELSE IF combined_parts = <<>>
             THEN [outcome |-> "IndexError"]
             ELSE CombineTextLoop(sorted_results, i + 1,
                      Append(combined_parts,
                             remove_text_overlap(previous_part(combined_parts), text)))

combine_text(results) ==
    IF results = <<>> THEN [outcome |-> "returned", text |-> <<>>]
    ELSE CombineTextLoop(SortedByChunkIndex(results), 1, <<>>)

(***************************************************************************)
(* _combine_segments and _combine_words: every segment (word) of every     *)
(* result in chunk_index order, start and end moved by the start_time of   *)
(* the chunk's metadata.                                                   *)
(***************************************************************************)
\* Mutant of adjusted_copy: no copy is made, the caller's item is adjusted.
adjusted_in_place(item, chunk_start_time) ==
    LET moved == [item EXCEPT !.start = item.start + chunk_start_time,
                              !.end   = item.end + chunk_start_time]
    IN  [original |-> moved, adjusted |-> moved]

\* One pass of the inner loop: adjusted is the new dict that is appended
\* (built from the object's attributes, or segment.copy() with start and end
\* added to), original is the caller's item afterwards.
adjusted_copy(item, chunk_start_time) ==
    [original |-> item,
     adjusted |-> [item EXCEPT !.start = item.start + chunk_start_time,
                               !.end   = item.end + chunk_start_time]]

\* Mutant of Shifted: the items keep their chunk-relative times.
NotShifted(items, chunk_start_time) == items

Shifted(items, chunk_start_time) ==
    [j \in 1..Len(items) |-> adjusted_copy(items[j], chunk_start_time).adjusted]

\* The caller's list of items after the loop went through it.
LeftBehind(items, chunk_start_time) ==
    [j \in 1..Len(items) |-> adjusted_copy(items[j], chunk_start_time).original]

RECURSIVE CombineItemsLoop(_, _)
CombineItemsLoop(sorted_results, field) ==
    IF sorted_results = <<>> THEN <<>>
    ELSE Shifted(Head(sorted_results)[field],
                 Head(sorted_results).chunk_metadata.start_time)
         \o CombineItemsLoop(Tail(sorted_results), field)

\* An item that repeats the text of the item before it is left out.
RECURSIVE DropRepeats(_)
DropRepeats(items) ==
    IF Len(items) <= 1 THEN items
    ELSE LET front == SubSeq(items, 1, Len(items) - 1)
             last  == items[Len(items)]
         IN  IF last.text = items[Len(items) - 1].text
             THEN DropRepeats(front)
             ELSE Append(DropRepeats(front), last)

\* Mutant of combine_segments: segments are deduplicated at the boundaries.
combine_segments_deduplicated(results) ==
    DropRepeats(CombineItemsLoop(SortedByChunkIndex(results), "segments"))

combine_segments(results) == CombineItemsLoop(SortedByChunkIndex(results), "segments")

combine_words(results) == CombineItemsLoop(SortedByChunkIndex(results), "words")

(***************************************************************************)
(* TranscriptionProcessor.combine_transcriptions                           *)
(***************************************************************************)
\* Mutant of successful_results: the failed results are not filtered out.
successful_results_unfiltered(results) == results

successful_results(results) == SelectSeq(results, LAMBDA r : r.success)

\* Mutant of MaxEndTime: the durations of the chunks are added up.
RECURSIVE SumOfDurations(_)
SumOfDurations(results) ==
    IF results = <<>> THEN 0
    ELSE results[1].chunk_metadata.duration + SumOfDurations(Tail(results))

RECURSIVE MaxEndTime(_)
MaxEndTime(results) ==
    IF results = <<>> THEN 0
    ELSE IF Len(results) = 1 THEN results[1].chunk_metadata.end_time
    ELSE Max(results[1].chunk_metadata.end_time, MaxEndTime(Tail(results)))

\* 'chunk_count' of the result when some chunk succeeded.
chunk_count(results) == Len(successful_results(results))

combine_transcriptions(results) ==
    IF results = <<>>
    THEN [outcome |-> "returned", success |-> FALSE, text |-> <<>>,
          segments |-> <<>>, words |-> <<>>, language |-> "None",
          total_duration |-> 0, chunk_count |-> 0, failed_chunks |-> "absent"]
    ELSE IF successful_results(results) = <<>>
    THEN [outcome |-> "returned", success |-> FALSE, text |-> <<>>,
          segments |-> <<>>, words |-> <<>>, language |-> "None",
          total_duration |-> 0, chunk_count |-> Len(results),
          failed_chunks |-> "absent"]
    ELSE LET ok == successful_results(results)
             combined_text == combine_text(ok)
         IN  IF combined_text.outcome # "returned"
             THEN [outcome |-> combined_text.outcome]
             ELSE [outcome |-> "returned", success |-> TRUE,
                   text |-> combined_text.text,
                   segments |-> combine_segments(ok),
                   words |-> combine_words(ok),
                   language |-> ok[1].language,
                   total_duration |-> MaxEndTime(ok),
                   chunk_count |-> chunk_count(results),
                   failed_chunks |-> Len(results) - Len(ok)]

\* The caller's list after combine_transcriptions: _combine_segments and
\* _combine_words went through the successful results, when there are any.
results_after_combine(results) ==
    [i \in 1..Len(results) |->
        IF results[i].success
        THEN [results[i] EXCEPT
                 !.segments = LeftBehind(@, results[i].chunk_metadata.start_time),
                 !.words = LeftBehind(@, results[i].chunk_metadata.start_time)]
        ELSE results[i]]

(***************************************************************************)
(* The chunk results the model hands to combine_transcriptions: result i   *)
(* is what transcribe_chunk returns for chunk i of a planned chunk list,   *)
(* the API having answered with one of Responses or failed for good.       *)
(***************************************************************************)
\* n times the text "a", separated by single spaces.
Repeated(n) == [j \in 1..(2 * n - 1) |-> IF j % 2 = 1 THEN "a" ELSE " "]

Texts ==
    { <<>>, <<" ">>, <<"a">>, <<"b">>, <<"a", " ", "b">>, <<"b", " ", "a">>,
      <<" ", "a", " ", " ", "b", " ">>, Repeated(11), Repeated(12) }

\* The words and segments the API reports for text, relative to the chunk:
\* word j lasts a second, a segment holds up to two words.  den: ticks per ms.
WordsOf(text, den) ==
    [j \in 1..Len(Split(text)) |->
        [start |-> (j - 1) * MsPerSecond * den, end |-> j * MsPerSecond * den,
         word |-> Split(text)[j]]]

SegmentsOf(text, den) ==
    [j \in 1..((Len(Split(text)) + 1) \div 2) |->
        [start |-> (2 * j - 2) * MsPerSecond * den,
         end   |-> Min(2 * j, Len(Split(text))) * MsPerSecond * den,
         text  |-> Join(SubSeq(Split(text), 2 * j - 1, Min(2 * j, Len(Split(text)))))]]

Responses ==
    { [ok |-> TRUE, text |-> t, language |-> "en"] : t \in Texts }
    \cup { [ok |-> TRUE, text |-> <<"b">>, language |-> "es"] }

\* The chunks a time-based run of the planner gives for a stream of n chunks.
ExampleSettings ==
    [max_chunk_size_mb |-> 10, overlap_seconds |-> 3, force_time_based |-> TRUE]

ExampleAudio(n) == [len |-> 55000 * (n - 1) + 5000, rate |-> 192]

ExampleChunks(n) ==
    IF n = 0 THEN <<>>
    ELSE IF ~needs_chunking(ExampleAudio(n), ExampleSettings)
    THEN SingleChunk(ExampleAudio(n), ExampleSettings)
    ELSE add_overlap_to_chunks(
             split_by_time(ExampleAudio(n).len,
                           target_chunk_duration(ExampleAudio(n), ExampleSettings),
                           Den(ExampleAudio(n), ExampleSettings)),
             ExampleSettings.overlap_seconds,
             Den(ExampleAudio(n), ExampleSettings))

\* The metadata dict of a chunk.
MetadataOf(c) ==
    [chunk_index |-> c.chunk_index, start_time |-> c.start_time,
     end_time |-> c.end_time, duration |-> c.duration,
     split_method |-> c.split_method]

\* transcribe_chunk's result for the chunk at position i (0-based chunk_index
\* i - 1): answer is a response of the API, or FailedResponse.
ChunkResult(cs, i, answer, den) ==
    IF ~answer.ok
    THEN [success |-> FALSE, text |-> <<>>, language |-> "None",
          segments |-> <<>>, words |-> <<>>,
          chunk_index |-> i - 1, chunk_metadata |-> MetadataOf(cs[i])]
    ELSE [success |-> TRUE, text |-> answer.text, language |-> answer.language,
          segments |-> SegmentsOf(answer.text, den),
          words |-> WordsOf(answer.text, den),
          chunk_index |-> i - 1, chunk_metadata |-> MetadataOf(cs[i])]

ChunkResultLists(n) ==
    { [i \in 1..n |-> ChunkResult(ExampleChunks(n), i, answers[i],
                                  Den(ExampleAudio(n), ExampleSettings))] :
        answers \in [1..n -> Responses \cup {FailedResponse}] }

CombineInit ==
    /\ pc = "combine"
    /\ run = IdleRun
    /\ \E n \in 0..MaxChunks :
          /\ audio = ExampleAudio(n)
          /\ chunks = ExampleChunks(n)
          /\ tiled = <<>>
          /\ chunk_results \in ChunkResultLists(n)
    /\ settings = ExampleSettings
    /\ silence_outcome = "untried"
    /\ silence_pieces = <<>>
    /\ alarm = NoAlarm
    /\ combined = NoResult
    /\ recombined = NoResult

\* combined_result = transcription_processor.combine_transcriptions(chunk_results)
Combine ==
    /\ pc = "combine"
    /\ combined' = combine_transcriptions(chunk_results)
    /\ chunk_results' = results_after_combine(chunk_results)
    /\ pc' = "combined"
    /\ UNCHANGED <<run, audio, settings, silence_outcome, silence_pieces, alarm,
                   tiled, chunks, recombined>>

\* combine_transcriptions is called once more on the list the caller holds.
CombineAgain ==
    /\ pc = "combined"
    /\ recombined' = combine_transcriptions(chunk_results)
    /\ chunk_results' = results_after_combine(chunk_results)
    /\ pc' = "recombined"
    /\ UNCHANGED <<run, audio, settings, silence_outcome, silence_pieces, alarm,
                   tiled, chunks, combined>>

CombineNext == Combine \/ CombineAgain

SpecCombine == CombineInit /\ [][CombineNext]_vars

(***************************************************************************)
(* AudioProcessor.validate_audio_file.  An uploaded file is its name (the  *)
(* parts between the dots), its size in bytes, whether                     *)
(* AudioSegment.from_file can decode it, and the audio it decodes to.      *)
(***************************************************************************)
MaxUploadMB == 500
MinAudioMs == 1000

SUPPORTED_FORMATS ==
    {"mp3", "wav", "m4a", "flac", "ogg", "webm", "mp4", "mpeg", "mpga"}

\* str.lower() on the name parts the model uses.
Lower(part) ==
    IF part = "MP3" THEN "mp3"
    ELSE IF part = "WAV" THEN "wav"
    ELSE IF part = "TXT" THEN "txt"
    ELSE part

\* uploaded_file.name.split('.')[-1].lower()
file_extension(name) == Lower(name[Len(name)])

\* Mutant of too_short: only audio under half a second is too short.
too_short_under_half(audio_segment) == audio_segment.len * 2 < MinAudioMs

\* len(audio_segment) < 1000
too_short(audio_segment) == audio_segment.len < MinAudioMs

\* The tuple (is_valid, error_message, audio_segment); None is <<>>.
Rejected(message) ==
    [is_valid |-> FALSE, message |-> message, audio_segment |-> <<>>]

validate_audio_file(uploaded_file, pydub_available) ==
    IF ~pydub_available
    THEN Rejected("Audio processing dependencies not available")
    ELSE IF file_extension(uploaded_file.name) \notin SUPPORTED_FORMATS
    THEN Rejected("Unsupported file format")
    ELSE IF uploaded_file.size > MaxUploadMB * BytesPerMB
    THEN Rejected("File too large. Maximum size is 500MB.")
    ELSE IF ~uploaded_file.decodable        \* from_file raises: except Exception
    THEN Rejected("Error loading audio file")
    ELSE IF too_short(uploaded_file.audio)
    THEN Rejected("Audio file is too short (less than 1 second).")
    ELSE [is_valid |-> TRUE, message |-> "",
          audio_segment |-> <<uploaded_file.audio>>]

(***************************************************************************)
(* WhisperClient.transcribe_audio_file: the retry loop.                    *)
(***************************************************************************)
max_retries == 3
retry_delay == 1     \* seconds

\* if attempt < self.max_retries - 1
should_retry(attempt) == attempt < max_retries - 1

\* Mutant of wait_time: the same delay before every retry.
wait_time_fixed(attempt) == retry_delay

\* wait_time = self.retry_delay * (2 ** attempt)
wait_time(attempt) == retry_delay * (2 ^ attempt)

(***************************************************************************)
(* process_transcription: the uploads and settings of the runs modelled,   *)
(* and the loop over the chunks.                                           *)
(***************************************************************************)
FileNames ==
    { <<"talk", "mp3">>, <<"TALK", "WAV">>, <<"notes", "txt">>,
      <<"talk", "mp3", "bak">> }

UploadSizes == {MaxUploadMB * BytesPerMB, MaxUploadMB * BytesPerMB + 1}

\* Decoded audio of 0.999 s, 1 s (one chunk), 60 s and 115 s (chunked).
RunAudioLens == {999, 1000, 60000, 115000}

UploadedFiles ==
    [name : FileNames, size : UploadSizes, decodable : BOOLEAN,
     audio : [len : RunAudioLens, rate : {192}]]

RunSettings ==
    [max_chunk_size_mb : {10}, overlap_seconds : {3}, force_time_based : BOOLEAN]

\* What the API answers when a request succeeds: speech, or nothing for a
\* silent chunk.
RunResponses ==
    { [ok |-> TRUE, text |-> <<"a", " ", "b">>, language |-> "en"],
      [ok |-> TRUE, text |-> <<>>, language |-> "en"] }

\* Mutant of has_next_chunk: the loop stops one chunk early.
has_next_chunk_but_last(i, cs) == i < Len(cs) - 1

\* for i, chunk_data in enumerate(chunks)
has_next_chunk(i, cs) == i < Len(cs)

\* Mutant of record_result: the result is put in front of the list.
record_result_in_front(results, result) == <<result>> \o results

\* chunk_results.append(result)
record_result(results, result) == Append(results, result)

RunInit ==
    /\ pc = "validate"
    /\ \E f \in UploadedFiles, available \in BOOLEAN :
          run = [IdleRun EXCEPT !.file = f, !.pydub_available = available]
    /\ audio = NoAudio
    /\ settings \in RunSettings
    /\ silence_outcome = "untried"
    /\ silence_pieces = <<>>
    /\ alarm = NoAlarm
    /\ tiled = <<>>
    /\ chunks = <<>>
    /\ chunk_results = <<>>
    /\ combined = NoResult
    /\ recombined = NoResult

\* validate_audio_file returned (True, "", audio_segment).
ValidateAccepts ==
    /\ pc = "validate"
    /\ LET v == validate_audio_file(run.file, run.pydub_available)
       IN  /\ v.is_valid
           /\ run' = [run EXCEPT !.validation = v]
           /\ audio' = v.audio_segment[1]
    /\ pc' = "plan"
    /\ UNCHANGED <<settings, silence_outcome, silence_pieces, alarm, tiled, chunks,
                   chunk_results, combined, recombined>>

\* if not is_valid: st.error(...); return None
ValidateRejects ==
    /\ pc = "validate"
    /\ LET v == validate_audio_file(run.file, run.pydub_available)
       IN  /\ ~v.is_valid
           /\ run' = [run EXCEPT !.validation = v]
    /\ pc' = "rejected"
    /\ UNCHANGED <<audio, settings, silence_outcome, silence_pieces, alarm, tiled,
                   chunks, chunk_results, combined, recombined>>

\* split_audio_intelligently returned; chunk_results = [] and the loop starts.
BeginTranscription ==
    /\ pc = "done"
    /\ run.validation.is_valid
    /\ run' = [run EXCEPT !.i = 0]
    /\ pc' = "loop"
    /\ UNCHANGED <<audio, settings, silence_outcome, silence_pieces, alarm, tiled,
                   chunks, chunk_results, combined, recombined>>

\* The loop takes chunk i and transcribe_chunk creates its temporary file:
\* tempfile.NamedTemporaryFile(delete=False, suffix='.mp3').
NextChunk ==
    /\ pc = "loop"
    /\ has_next_chunk(run.i, chunks)
    /\ run' = [run EXCEPT !.temp_files = @ \cup {run.i},
                          !.attempt = 0, !.api_calls = 0, !.sleeps = <<>>,
                          !.answer = FailedResponse]
    /\ pc' = "export"
    /\ UNCHANGED <<audio, settings, silence_outcome, silence_pieces, alarm, tiled,
                   chunks, chunk_results, combined, recombined>>

\* The loop is exhausted.
LoopEnd ==
    /\ pc = "loop"
    /\ ~has_next_chunk(run.i, chunks)
    /\ pc' = "combine"
    /\ UNCHANGED <<run, audio, settings, silence_outcome, silence_pieces, alarm,
                   tiled, chunks, chunk_results, combined, recombined>>

\* audio_chunk.export(temp_file.name, ...) and os.path.getsize worked; the try
\* block is entered and transcribe_audio_file starts with attempt 0.
ExportChunk ==
    /\ pc = "export"
    /\ pc' = "api"
    /\ UNCHANGED <<run, audio, settings, silence_outcome, silence_pieces, alarm,
                   tiled, chunks, chunk_results, combined, recombined>>

\* audio_chunk.export raised: the statement is before the try block, so the
\* exception leaves transcribe_chunk and process_transcription at once.
ExportFails ==
    /\ pc = "export"
    /\ pc' = "raised"
    /\ UNCHANGED <<run, audio, settings, silence_outcome, silence_pieces, alarm,
                   tiled, chunks, chunk_results, combined, recombined>>

\* The request of this attempt succeeded: the result is returned.
ApiSucceeds ==
    /\ pc = "api"
    /\ \E response \in RunResponses :
          run' = [run EXCEPT !.api_calls = @ + 1, !.requests = @ + 1,
                             !.answer = response]
    /\ pc' = "cleanup"
    /\ UNCHANGED <<audio, settings, silence_outcome, silence_pieces, alarm, tiled,
                   chunks, chunk_results, combined, recombined>>

\* The attempt raised and another is due: sleep, then the next attempt, or
\* the return after the loop when range(max_retries) is exhausted.
ApiFailsRetry ==
    /\ pc = "api"
    /\ should_retry(run.attempt)
    /\ run' = [run EXCEPT !.api_calls = @ + 1,
                          !.requests = @ + 1,
                          !.sleeps = Append(@, wait_time(run.attempt)),
                          !.attempt = @ + 1,
                          !.answer = FailedResponse]
    /\ pc' = IF run.attempt + 1 < max_retries THEN "api" ELSE "cleanup"
    /\ UNCHANGED <<audio, settings, silence_outcome, silence_pieces, alarm, tiled,
                   chunks, chunk_results, combined, recombined>>

\* The last attempt raised: the failure result is returned.
ApiFailsLast ==
    /\ pc = "api"
    /\ ~should_retry(run.attempt)
    /\ run' = [run EXCEPT !.api_calls = @ + 1, !.requests = @ + 1,
                          !.answer = FailedResponse]
    /\ pc' = "cleanup"
    /\ UNCHANGED <<audio, settings, silence_outcome, silence_pieces, alarm, tiled,
                   chunks, chunk_results, combined, recombined>>

\* transcribe_chunk adds chunk_metadata and chunk_index to the result, its
\* finally clause unlinks the temporary file, and the loop appends the result.
FinishChunk ==
    /\ pc = "cleanup"
    /\ chunk_results' =
           record_result(chunk_results,
                         ChunkResult(chunks, run.i + 1, run.answer,
                                     Den(audio, settings)))
    /\ run' = [run EXCEPT !.temp_files = @ \ {run.i}, !.i = @ + 1]
    /\ pc' = "loop"
    /\ UNCHANGED <<audio, settings, silence_outcome, silence_pieces, alarm, tiled,
                   chunks, combined, recombined>>

RunNext ==
    \/ ValidateAccepts
    \/ ValidateRejects
    \/ PlanNext
    \/ BeginTranscription
    \/ NextChunk
    \/ LoopEnd
    \/ ExportChunk
    \/ ExportFails
    \/ ApiSucceeds
    \/ ApiFailsRetry
    \/ ApiFailsLast
    \/ FinishChunk
    \/ Combine

SpecRun == RunInit /\ [][RunNext]_vars

(***************************************************************************)
(* WhisperClient.validate_api_key, called by test_api_connection: the test *)
(* transcription of one second of silence (SpecKey).  An error message is  *)
(* the set of the keywords the code looks for that its text contains, in   *)
(* lower case.                                                             *)
(***************************************************************************)
ApiKeys == {"valid", "invalid"}

\* 401 "Incorrect API key provided ... 'code': 'invalid_api_key'"
InvalidKeyError == {"invalid"}
\* 429 "You exceeded your current quota ... 'code': 'insufficient_quota'"
QuotaError == {"quota"}
\* 429 "Rate limit reached for whisper-1 ... 'code': 'rate_limit_exceeded'"
RateLimitError == {"rate_limit"}
\* "Connection error."
ConnectionError == {"connection"}

\* What a request can be rejected with, by the key it carries.
ApiErrors(key) ==
    IF key = "valid" THEN {QuotaError, RateLimitError, ConnectionError}
    ELSE {InvalidKeyError, ConnectionError}

\* What test_audio.export can raise: ffmpeg missing, or ffmpeg's "Invalid
\* data found when processing input".
ExportErrors == { {"ffmpeg"}, {"invalid"} }

\* result.get('error', '').lower() of the result transcribe_audio_file returned
last_error(r) == IF r.errors = <<>> THEN {} ELSE r.errors[Len(r.errors)]

\* return result['success'] or 'quota' not in result.get('error', '').lower()
key_verdict(r) == r.answer.ok \/ "quota" \notin last_error(r)

\* except Exception as e: False for 'invalid', 'unauthorized', 'forbidden'.
verdict_on_exception(error_msg) ==
    ~(\E keyword \in {"invalid", "unauthorized", "forbidden"} :
          keyword \in error_msg)

Verdict(b) == IF b THEN "True" ELSE "False"

KeyInit ==
    /\ pc = "key_export"
    /\ \E key \in ApiKeys : run = [IdleRun EXCEPT !.api_key = key]
    /\ audio = NoAudio
    /\ settings = ExampleSettings
    /\ silence_outcome = "untried"
    /\ silence_pieces = <<>>
    /\ alarm = NoAlarm
    /\ tiled = <<>>
    /\ chunks = <<>>
    /\ chunk_results = <<>>
    /\ combined = NoResult
    /\ recombined = NoResult

\* The silent second was exported to the temporary file.
KeyExport ==
    /\ pc = "key_export"
    /\ run' = [run EXCEPT !.temp_files = {0}]
    /\ pc' = "key_api"
    /\ UNCHANGED <<audio, settings, silence_outcome, silence_pieces, alarm, tiled,
                   chunks, chunk_results, combined, recombined>>

\* test_audio.export raised: the outer except clause decides; the temporary
\* file was created before and stays.
KeyExportFails ==
    /\ pc = "key_export"
    /\ \E e \in ExportErrors :
          run' = [run EXCEPT !.temp_files = {0},
                             !.errors = Append(@, e),
                             !.is_valid = Verdict(verdict_on_exception(e))]
    /\ pc' = "key_done"
    /\ UNCHANGED <<audio, settings, silence_outcome, silence_pieces, alarm, tiled,
                   chunks, chunk_results, combined, recombined>>

\* transcribe_audio_file: the request of this attempt succeeded.
KeyApiSucceeds ==
    /\ pc = "key_api"
    /\ run.api_key = "valid"
    /\ run' = [run EXCEPT !.api_calls = @ + 1,
                          !.answer = [ok |-> TRUE, text |-> <<>>, language |-> "en"]]
    /\ pc' = "key_return"
    /\ UNCHANGED <<audio, settings, silence_outcome, silence_pieces, alarm, tiled,
                   chunks, chunk_results, combined, recombined>>

\* transcribe_audio_file: the attempt raised and another is due.
KeyApiFailsRetry ==
    /\ pc = "key_api"
    /\ should_retry(run.attempt)
    /\ \E e \in ApiErrors(run.api_key) :
          run' = [run EXCEPT !.api_calls = @ + 1,
                             !.sleeps = Append(@, wait_time(run.attempt)),
                             !.attempt = @ + 1,
                             !.errors = Append(@, e)]
    /\ UNCHANGED <<pc, audio, settings, silence_outcome, silence_pieces, alarm,
                   tiled, chunks, chunk_results, combined, recombined>>

\* transcribe_audio_file: the last attempt raised; the failure result with
\* 'error': error_msg is returned.
KeyApiFailsLast ==
    /\ pc = "key_api"
    /\ ~should_retry(run.attempt)
    /\ \E e \in ApiErrors(run.api_key) :
          run' = [run EXCEPT !.api_calls = @ + 1,
                             !.answer = FailedResponse,
                             !.errors = Append(@, e)]
    /\ pc' = "key_return"
    /\ UNCHANGED <<audio, settings, silence_outcome, silence_pieces, alarm, tiled,
                   chunks, chunk_results, combined, recombined>>

\* The return statement of validate_api_key and its finally clause.
KeyReturn ==
    /\ pc = "key_return"
    /\ run' = [run EXCEPT !.is_valid = Verdict(key_verdict(run)),
                          !.temp_files = {}]
    /\ pc' = "key_done"
    /\ UNCHANGED <<audio, settings, silence_outcome, silence_pieces, alarm, tiled,
                   chunks, chunk_results, combined, recombined>>

KeyNext ==
    \/ KeyExport
    \/ KeyExportFails
    \/ KeyApiSucceeds
    \/ KeyApiFailsRetry
    \/ KeyApiFailsLast
    \/ KeyReturn

SpecKey == KeyInit /\ [][KeyNext]_vars

(***************************************************************************)
(* Claims about the planner (SpecPlan).                                    *)
(***************************************************************************)
Planned == pc = "done"

FitsOneChunk == RawBytes(audio) <= max_chunk_size_bytes(settings)

OneChunkCoveringStream ==
    /\ Len(chunks) = 1
    /\ chunks[1].audio_len = audio.len
    /\ chunks[1].start_time = 0
    /\ chunks[1].end_time = total_duration(audio, settings)
    /\ chunks[1].duration = total_duration(audio, settings)

StartsAtZero(cs) == cs[1].start_time = 0
Contiguous(cs) == \A i \in 1..(Len(cs) - 1) : cs[i + 1].start_time = cs[i].end_time
EndsAtTotal(cs) == cs[Len(cs)].end_time = total_duration(audio, settings)

\* C2: under every split strategy the chunks before overlap injection tile
\* [0, total duration): first start 0, each start the previous end, last end
\* the stream's total duration.
C2_PreOverlapTiling ==
    (pc \in {"overlap", "done"}) =>
        (StartsAtZero(tiled) /\ Contiguous(tiled) /\ EndsAtTotal(tiled))

\* C3, as stated: the growth of a chunk's duration by overlap injection is at
\* most 25% of its duration before padding, for first, interior and last chunks.
C3_GrowthAtMostQuarter ==
    (Planned /\ Len(chunks) >= 2) =>
        \A i \in 1..Len(chunks) :
            (chunks[i].duration - tiled[i].duration) * 4 <= tiled[i].duration

\* C3, amended: each pad is at most 25% of the chunk's duration before padding;
\* the first and the last chunk get one pad, an interior chunk gets two, so an
\* interior chunk grows by at most 50%.
C3_EachPadAtMostQuarter ==
    (Planned /\ Len(chunks) >= 2) =>
        \A i \in 1..Len(chunks) :
            LET growth == chunks[i].duration - tiled[i].duration
                pads == IF i = 1 \/ i = Len(chunks) THEN 1 ELSE 2
            IN  /\ growth >= 0
                /\ growth * 4 <= pads * tiled[i].duration
                /\ (chunks[i].end_time - tiled[i].end_time) * 4 <= tiled[i].duration
                /\ (tiled[i].start_time - chunks[i].start_time) * 4 <= tiled[i].duration

\* An interior chunk has been padded, and the 25% cap, not overlap_seconds,
\* set the pad of some chunk.
C3_Witness ==
    /\ Planned
    /\ Len(chunks) >= 3
    /\ \E i \in 1..Len(chunks) :
          /\ tiled[i].audio_len \div OverlapDivisor < settings.overlap_seconds * MsPerSecond
          /\ chunks[i].duration > tiled[i].duration

\* C4: every chunk split_audio_intelligently returns has a raw sample size of
\* at most the configured max chunk size.
C4_ChunksWithinMaxSize ==
    Planned =>
        \A i \in 1..Len(chunks) :
            chunks[i].audio_len * audio.rate <= max_chunk_size_bytes(settings)

\* C5: when _split_on_silence ends with nothing (no piece, timeout, exception),
\* split_audio_intelligently returns the time-based chunks of the whole stream
\* for the same target duration, with overlap injected.
C5_SilenceFailureGivesTimeChunks ==
    (Planned /\ silence_outcome \in {"none", "timeout", "error", "no_signal"}) =>
        /\ tiled = split_by_time(audio.len, target_chunk_duration(audio, settings),
                                 Den(audio, settings))
        /\ chunks = add_overlap_to_chunks(tiled, settings.overlap_seconds,
                                          Den(audio, settings))
        /\ \A i \in 1..Len(chunks) : chunks[i].split_method = "time"
        /\ StartsAtZero(tiled) /\ Contiguous(tiled) /\ EndsAtTotal(tiled)

\* Silence detection timed out and three or more time-based chunks came back.
C5_Witness ==
    Planned /\ silence_outcome = "timeout" /\ Len(chunks) >= 3

\* The global time, in ticks, the stitcher gives to the sample t ms into the
\* padded audio of chunk c: the chunk's recorded start_time plus t.
AssignedTime(c, t, den) == c.start_time + t * den

\* Where that sample lies in the stream, in ticks: t is past the leading pad,
\* on the audio the chunk was sliced from.
StreamPosition(c, t, den) == (c.origin + (t - c.lead_pad)) * den

\* C12: for every chunk returned with overlap injected, whatever the split
\* method, and every time t from the start of the chunk's padded audio that
\* falls on original audio, the chunk's recorded start_time + t is the position
\* of that audio in the original stream (to within the millisecond the slice
\* was cut at).
C12_GlobalTimeIsStreamPosition ==
    (Planned /\ Len(chunks) >= 2) =>
        \A i \in 1..Len(chunks) :
            \A t \in {chunks[i].lead_pad,
                      chunks[i].lead_pad + tiled[i].audio_len - 1} :
                LET den == Den(audio, settings)
                    off == AssignedTime(chunks[i], t, den)
                           - StreamPosition(chunks[i], t, den)
                IN  -den < off /\ off < den

(***************************************************************************)
(* Claims about the stitcher (SpecCombine).                                *)
(***************************************************************************)
Stitched == pc = "combined"

Returned == Stitched /\ combined.outcome = "returned"

Attempted == Len(chunk_results)

Succeeded == Cardinality({i \in 1..Len(chunk_results) : chunk_results[i].success})

\* C6: with K >= 1 of N results successful, combine_transcriptions returns
\* success = true and failed_chunks = N - K, wherever the failed results are.
C6_PartialSuccess ==
    (Stitched /\ Succeeded >= 1) =>
        /\ combined.outcome = "returned"
        /\ combined.success
        /\ combined.failed_chunks = Attempted - Succeeded

\* C7: with no successful result, the empty list included, the result has
\* success = false, text "", no segments and no words; chunk_count is 0 for
\* the empty list.
C7_NothingSucceeded ==
    (Stitched /\ Succeeded = 0) =>
        /\ combined.outcome = "returned"
        /\ ~combined.success
        /\ combined.text = <<>>
        /\ combined.segments = <<>>
        /\ combined.words = <<>>
        /\ (Attempted = 0 => combined.chunk_count = 0)

\* Two or more results, all failed, have been combined.
C7_Witness == Stitched /\ Attempted >= 2 /\ Succeeded = 0

\* C8: chunk_count of the result is the number of chunks attempted, so that
\* chunk_count - failed_chunks is the number that succeeded.
C8_ChunkCountIsAttempted ==
    Returned =>
        /\ combined.chunk_count = Attempted
        /\ (combined.success =>
               combined.chunk_count - combined.failed_chunks = Succeeded)

\* The words of the successful chunks that have any, in chunk order.
ChunkWords ==
    LET ok == SelectSeq(chunk_results, LAMBDA r : r.success /\ Split(r.text) # <<>>)
    IN  [i \in 1..Len(ok) |-> Split(ok[i].text)]

\* The largest k <= 10 such that the last k words of x are the first k of y.
LongestRun(x, y) ==
    LET runs == {k \in 0..Min(Min(Len(x), Len(y)), 10) :
                    SubSeq(x, Len(x) - k + 1, Len(x)) = SubSeq(y, 1, k)}
    IN  CHOOSE k \in runs : \A j \in runs : j <= k

Drop(y, k) == SubSeq(y, k + 1, Len(y))

\* Every chunk after the first loses the longest run it shares with the
\* text of the chunk before it.
RECURSIVE MergedPairwise(_)
MergedPairwise(ws) ==
    IF Len(ws) <= 1 THEN (IF ws = <<>> THEN <<>> ELSE ws[1])
    ELSE MergedPairwise(SubSeq(ws, 1, Len(ws) - 1))
         \o Drop(ws[Len(ws)], LongestRun(ws[Len(ws) - 1], ws[Len(ws)]))

\* Every chunk after the first loses the longest run it shares with the
\* text combined so far.
RECURSIVE MergedAgainstCombined(_)
MergedAgainstCombined(ws) ==
    IF Len(ws) <= 1 THEN (IF ws = <<>> THEN <<>> ELSE ws[1])
    ELSE LET sofar == MergedAgainstCombined(SubSeq(ws, 1, Len(ws) - 1))
         IN  sofar \o Drop(ws[Len(ws)], LongestRun(sofar, ws[Len(ws)]))

\* C9: of two consecutive successful chunks, the longest run of k <= 10 words
\* that ends the first and starts the second is in the merged text once: it is
\* removed from the head of the second and nothing else is removed.
C9_BoundaryRunOnce ==
    (Returned /\ combined.success) =>
        Split(combined.text) = MergedPairwise(ChunkWords)

\* C10: with three or more chunks, each chunk after the first loses the longest
\* run of k <= 10 words that is a suffix of the already-combined text and a
\* prefix of the chunk's text, and is appended unmodified with no such run.
C10_MatchAgainstCombinedText ==
    (Returned /\ combined.success) =>
        Split(combined.text) = MergedAgainstCombined(ChunkWords)

\* The segments (words) of the successful results among the first n of
\* chunk_results, in list order and as the API gave them.
RECURSIVE ItemsOfSuccessful(_, _)
ItemsOfSuccessful(n, field) ==
    IF n = 0 THEN <<>>
    ELSE ItemsOfSuccessful(n - 1, field)
         \o (IF chunk_results[n].success THEN chunk_results[n][field] ELSE <<>>)

\* Item j of successful result i is in the combined list, after the items of
\* the successful results before it, with start and end moved by start_time
\* of result i's metadata.
HeldShifted(i, j, field) ==
    LET item == chunk_results[i][field][j]
        offset == chunk_results[i].chunk_metadata.start_time
        p == Len(ItemsOfSuccessful(i - 1, field)) + j
    IN  /\ p <= Len(combined[field])
        /\ combined[field][p].start = item.start + offset
        /\ combined[field][p].end = item.end + offset

\* C11: for every successful chunk and every segment and word in it, the
\* combined result holds that segment / word with start and end equal to the
\* chunk-relative start and end plus the start_time of the chunk's metadata.
C11_ShiftedByChunkStart ==
    (Returned /\ combined.success) =>
        \A i \in 1..Len(chunk_results) :
            chunk_results[i].success =>
                /\ \A j \in 1..Len(chunk_results[i].segments) : HeldShifted(i, j, "segments")
                /\ \A j \in 1..Len(chunk_results[i].words) : HeldShifted(i, j, "words")

\* Three successful chunks with a segment each, the later ones starting after 0.
C11_Witness ==
    /\ Returned
    /\ Len(chunk_results) = 3
    /\ \A i \in 1..3 : chunk_results[i].success /\ chunk_results[i].segments # <<>>
    /\ chunk_results[2].chunk_metadata.start_time > 0
    /\ Len(combined.segments) >= 3

\* C13: the combined segments list, and likewise the combined words list, is
\* the concatenation in increasing chunk index order of every successful
\* chunk's segments (words): none removed or deduplicated, none from a failed
\* chunk, the order within each chunk kept.
C13_ConcatenationInChunkOrder ==
    (Returned /\ combined.success) =>
        LET segments == ItemsOfSuccessful(Len(chunk_results), "segments")
            words == ItemsOfSuccessful(Len(chunk_results), "words")
        IN  /\ \A i \in 1..(Len(chunk_results) - 1) :
                   chunk_results[i].chunk_index < chunk_results[i + 1].chunk_index
            /\ Len(combined.segments) = Len(segments)
            /\ \A p \in 1..Len(segments) :
                   /\ combined.segments[p].text = segments[p].text
                   /\ combined.segments[p].end - combined.segments[p].start
                          = segments[p].end - segments[p].start
            /\ Len(combined.words) = Len(words)
            /\ \A p \in 1..Len(words) :
                   /\ combined.words[p].word = words[p].word
                   /\ combined.words[p].end - combined.words[p].start
                          = words[p].end - words[p].start

\* A failed chunk between two successful chunks that carry the same text.
C13_Witness ==
    /\ Returned
    /\ Len(chunk_results) = 3
    /\ chunk_results[1].success /\ ~chunk_results[2].success /\ chunk_results[3].success
    /\ chunk_results[1].segments # <<>>
    /\ chunk_results[1].text = chunk_results[3].text

\* end_time of the metadata of the successful results.
SuccessfulEndTimes ==
    {chunk_results[i].chunk_metadata.end_time :
        i \in {k \in 1..Len(chunk_results) : chunk_results[k].success}}

SuccessfulDurations ==
    SumSeq([i \in 1..Len(chunk_results) |->
               IF chunk_results[i].success
               THEN chunk_results[i].chunk_metadata.duration ELSE 0])

\* C19: total_duration of the combined result is the largest end_time over the
\* metadata of the successful chunks: not the sum of the chunk durations, and
\* no end time of a failed chunk.
C19_TotalDurationIsMaxEnd ==
    (Returned /\ combined.success) =>
        /\ combined.total_duration \in SuccessfulEndTimes
        /\ \A e \in SuccessfulEndTimes : e <= combined.total_duration
        /\ (Succeeded >= 2 => combined.total_duration # SuccessfulDurations)

\* The last of three chunks failed, with the largest end_time of all, and the
\* two before it succeeded.
C19_Witness ==
    /\ Returned
    /\ Len(chunk_results) = 3
    /\ chunk_results[1].success /\ chunk_results[2].success /\ ~chunk_results[3].success
    /\ chunk_results[3].chunk_metadata.end_time > chunk_results[2].chunk_metadata.end_time

(***************************************************************************)
(* Claims about the run (SpecRun).                                         *)
(***************************************************************************)
\* The loop over the chunks is over and its results go to combine_transcriptions.
LoopOver == pc \in {"combine", "combined"}

\* C14: a chunk that ends in terminal failure does not stop the run: every
\* later chunk is still transcribed, there is exactly one result per chunk, and
\* combine_transcriptions is then called on all of them.  Only an exception
\* from before the first request of a chunk ends the loop early.
C14_FailureDoesNotStopRun ==
    /\ LoopOver =>
           /\ Len(chunk_results) = Len(chunks)
           /\ \A j \in 1..Len(chunks) :
                  chunk_results[j].chunk_metadata = MetadataOf(chunks[j])
    /\ (pc = "combined") => combined = combine_transcriptions(chunk_results)
    /\ (pc \in {"loop", "export", "api", "cleanup"}) => run.i < Len(chunks) + 1
    /\ (pc = "loop" /\ run.i < Len(chunks)) => ENABLED NextChunk
    /\ (pc = "raised") => run.api_calls = 0

\* The first chunk failed for good, a later one succeeded, and all results
\* have been combined.
C14_Witness ==
    /\ pc = "combined"
    /\ Len(chunk_results) >= 3
    /\ ~chunk_results[1].success
    /\ chunk_results[2].success
    /\ ~chunk_results[Len(chunk_results)].success

\* transcribe_chunk is not running: before it, between two calls, or after it
\* returned or raised.
OutsideTranscribeChunk == pc \in {"loop", "combine", "combined", "raised"}

\* C15: whenever transcribe_chunk finishes for a chunk (success result,
\* failure result, or an exception, a failed export of the chunk to the
\* temporary file included) the temporary file it created has been deleted.
C15_TempFileDeleted == OutsideTranscribeChunk => run.temp_files = {}

\* C16: transcribe_audio_file makes at most max_retries (3) requests for one
\* file and none after the first success; it waits retry_delay * 2^k seconds
\* after failed attempt k (0-based) before attempt k + 1 and does not wait
\* after the last attempt; after the last failure it returns a result with
\* success = false and does not raise.
C16_BoundedRetriesWithBackoff ==
    /\ (pc \in {"api", "cleanup"}) =>
           /\ run.api_calls <= max_retries
           /\ \A k \in 1..Len(run.sleeps) :
                  run.sleeps[k] = IF k = 1 THEN retry_delay
                                  ELSE 2 * run.sleeps[k - 1]
    /\ (pc = "api") =>
           /\ run.api_calls < max_retries
           /\ Len(run.sleeps) = run.api_calls
    /\ (pc = "cleanup" /\ run.answer.ok) => Len(run.sleeps) = run.api_calls - 1
    /\ (pc = "cleanup" /\ ~run.answer.ok) =>
           /\ run.api_calls = max_retries
           /\ Len(run.sleeps) = max_retries - 1
    /\ (pc = "raised") => run.api_calls = 0 /\ run.sleeps = <<>>

\* Three requests failed and the failure result is being returned.
C16_Witness ==
    /\ pc = "cleanup"
    /\ ~run.answer.ok
    /\ run.api_calls = 3
    /\ run.sleeps = <<1, 2>>

\* The results so far are those of chunks 0 .. n - 1, in that order.
ResultsInIndexOrder ==
    \A j \in 1..Len(chunk_results) : chunk_results[j].chunk_index = j - 1

\* C17: chunks are transcribed one at a time in increasing index order: a
\* request for a chunk is sent only when every chunk before it has its terminal
\* result, and the list handed to combine_transcriptions is in chunk index
\* order.
C17_OneAtATimeInOrder ==
    /\ [][ (run'.api_calls = run.api_calls + 1) =>
              /\ Len(chunk_results) = run.i
              /\ ResultsInIndexOrder
              /\ run.temp_files = {run.i} ]_vars
    /\ [](LoopOver => (ResultsInIndexOrder /\ Len(chunk_results) = Len(chunks)))

\* A request for the third chunk is about to be sent after the second chunk
\* failed for good.
C17_Witness ==
    /\ pc = "api"
    /\ run.i = 2
    /\ Len(chunk_results) = 2
    /\ ~chunk_results[2].success

\* The planner has returned its chunk list.
PlannerReturned ==
    pc \in {"done", "loop", "export", "api", "cleanup", "combine", "combined",
            "raised"}

\* C18: the chunk list the planner returns carries chunk_index i at list
\* position i (0-based) under every split strategy, silence pieces mixed with
\* time_fallback re-splits included, so the loop index stored as a result's
\* chunk_index is the chunk_index of the metadata carried in that result.
C18_ChunkIndexIsPosition ==
    /\ PlannerReturned => \A j \in 1..Len(chunks) : chunks[j].chunk_index = j - 1
    /\ \A j \in 1..Len(chunk_results) :
           /\ chunk_results[j].chunk_index = j - 1
           /\ chunk_results[j].chunk_index
                  = chunk_results[j].chunk_metadata.chunk_index

\* Every chunk of a list that mixes a silence piece with time_fallback chunks
\* after it has its result.
C18_Witness ==
    /\ LoopOver
    /\ Len(chunk_results) = Len(chunks)
    /\ \E j \in 2..Len(chunks) :
          /\ chunks[j - 1].split_method = "silence"
          /\ chunks[j].split_method = "time_fallback"

\* The upload has one of the defects validate_audio_file checks for.
Defective(uploaded_file) ==
    \/ file_extension(uploaded_file.name) \notin SUPPORTED_FORMATS
    \/ uploaded_file.size > MaxUploadMB * BytesPerMB
    \/ ~uploaded_file.decodable
    \/ uploaded_file.audio.len < MinAudioMs

\* C20: validate_audio_file rejects (is_valid = false, a non-empty message, no
\* audio segment) every file with an unsupported extension, a size over 500 MB,
\* undecodable content or a decoded duration under 1 s; and after a rejection
\* process_transcription does no chunking and no transcription call and
\* returns no result.
C20_DefectiveUploadRejected ==
    /\ Defective(run.file) =>
           LET v == validate_audio_file(run.file, run.pydub_available)
           IN  ~v.is_valid /\ v.message # "" /\ v.audio_segment = <<>>
    /\ (Defective(run.file) /\ pc # "validate") => pc = "rejected"
    /\ (pc = "rejected") =>
           /\ ~run.validation.is_valid
           /\ run.validation.message # ""
           /\ run.validation.audio_segment = <<>>
           /\ tiled = <<>> /\ chunks = <<>> /\ silence_outcome = "untried"
           /\ chunk_results = <<>>
           /\ run.api_calls = 0 /\ run.temp_files = {}
           /\ combined = NoResult
           /\ ~ENABLED RunNext

\* A well-named, decodable upload of 0.999 s has been rejected.
C20_Witness ==
    /\ pc = "rejected"
    /\ file_extension(run.file.name) \in SUPPORTED_FORMATS
    /\ run.file.size <= MaxUploadMB * BytesPerMB
    /\ run.file.decodable
    /\ run.file.audio.len = 999
    /\ run.pydub_available

\* C28: whatever the chunk list and the pattern of API failures, the run makes
\* at most max_retries (3) requests per chunk, at most 3 x the number of chunks
\* in total, then calls combine_transcriptions once and returns its result.
C28_RunReturnsCombinedResult ==
    /\ (pc \in {"api", "cleanup"}) => run.api_calls <= max_retries
    /\ PlannerReturned => run.requests <= max_retries * Len(chunks)
    /\ (pc = "combined") =>
           /\ run.requests <= max_retries * Len(chunks)
           /\ combined.outcome = "returned"

\* Every request of a run of two or more chunks failed, and the results have
\* been combined.
C28_EveryRequestFailed ==
    /\ pc = "combined"
    /\ Len(chunks) >= 2
    /\ run.requests = max_retries * Len(chunks)

\* The first chunk was silent, a later one had speech, and the results have
\* been handed to combine_transcriptions.
C28_SilentFirstChunk ==
    /\ pc = "combined"
    /\ Len(chunk_results) >= 2
    /\ chunk_results[1].success
    /\ chunk_results[1].text = <<>>
    /\ \E j \in 2..Len(chunk_results) :
          chunk_results[j].success /\ chunk_results[j].text # <<>>

C26_NeverRaises ==
    (pc \in {"combined", "recombined"} /\ Succeeded >= 1) =>
        combined.outcome = "returned"

\* The first successful chunk has only white space as text, a later one has
\* text, and combine_transcriptions is over.
C26_BlankThenText ==
    /\ Stitched
    /\ Len(chunk_results) >= 2
    /\ chunk_results[1].success
    /\ Strip(chunk_results[1].text) = <<>>
    /\ chunk_results[2].success
    /\ Strip(chunk_results[2].text) # <<>>

(***************************************************************************)
(* More claims about the planner (SpecPlan).                               *)
(***************************************************************************)
\* C30: on every exit path of _split_on_silence (chunks found, no silence,
\* timeout, any other exception) the 30-second alarm it armed has been
\* cancelled: once the silence attempt is over no alarm is pending, so the
\* timeout cannot go off during a later stage.
C30_AlarmCancelledOnEveryExit ==
    (silence_outcome # "untried") => alarm.pending = 0

\* The alarm was armed, another exception ended the silence attempt, and the
\* planner has gone on to the time-based split and the overlap.
C30_Witness ==
    /\ Planned
    /\ silence_outcome = "error"
    /\ alarm.armed = 1
    /\ Len(chunks) >= 2

\* The chunks of the silence segmentation that were cut from piece j.
ChunksOfPiece(j) ==
    {i \in 1..Len(tiled) :
        /\ tiled[i].origin >= silence_pieces[j].from
        /\ tiled[i].origin < silence_pieces[j].from + silence_pieces[j].len}

\* The silence segmentation has returned chunks.
SilenceSegmented ==
    /\ silence_outcome = "chunks"
    /\ tiled # <<>>

\* C23: in the silence segmentation every piece longer than 1.5 x
\* target_chunk_duration is split by time into chunks tagged time_fallback,
\* every other piece is kept whole and tagged silence; start_time and end_time
\* of every chunk continue from the running position in the chunk sequence;
\* so every chunk has a duration of at most 1.5 x target_chunk_duration.
C23_OversizedPiecesResplit ==
    SilenceSegmented =>
        LET target == target_chunk_duration(audio, settings)
            den == Den(audio, settings)
        IN  /\ \A j \in 1..Len(silence_pieces) :
                  IF silence_pieces[j].len * den * 2 > target * 3
                  THEN /\ Cardinality(ChunksOfPiece(j)) >= 2
                       /\ \A i \in ChunksOfPiece(j) :
                             tiled[i].split_method = "time_fallback"
                  ELSE \E i \in 1..Len(tiled) :
                          /\ ChunksOfPiece(j) = {i}
                          /\ tiled[i].split_method = "silence"
                          /\ tiled[i].origin = silence_pieces[j].from
                          /\ tiled[i].audio_len = silence_pieces[j].len
            /\ \A i \in 1..Len(tiled) :
                  /\ tiled[i].start_time =
                        IF i = 1 THEN 0 ELSE tiled[i - 1].end_time
                  /\ tiled[i].end_time = tiled[i].start_time + tiled[i].duration
                  /\ tiled[i].duration * 2 <= target * 3

\* A piece that was kept whole is followed by the chunks of a piece that was
\* split by time.
C23_Witness ==
    /\ SilenceSegmented
    /\ Planned
    /\ \E i \in 2..Len(tiled) :
          /\ tiled[i - 1].split_method = "silence"
          /\ tiled[i].split_method = "time_fallback"
          /\ tiled[i].start_time > 0

\* _add_overlap_to_chunks has run on the list the segmenter returned.
OverlapInjected == Planned /\ needs_chunking(audio, settings)

\* By how many ticks chunk i was moved at its start and at its end.
StartMove(i) == tiled[i].start_time - chunks[i].start_time
EndMove(i) == chunks[i].end_time - tiled[i].end_time

\* What overlap injection leaves alone, and which ends it moves by Move(i).
OverlapFrame(Move(_)) ==
    /\ Len(chunks) = Len(tiled)
    /\ Len(tiled) = 1 => chunks = tiled
    /\ Len(tiled) >= 2 =>
          \A i \in 1..Len(tiled) :
              /\ chunks[i].chunk_index = tiled[i].chunk_index
              /\ chunks[i].split_method = tiled[i].split_method
              /\ chunks[i].origin = tiled[i].origin
              /\ StartMove(i) = IF i = 1 THEN 0 ELSE Move(i)
              /\ EndMove(i) = IF i = Len(tiled) THEN 0 ELSE Move(i)

\* min(overlap_seconds, duration / 4), in ticks, when it is a whole number of
\* ticks; -1, which no move is, when it is not.
QuarterOfDuration(i) ==
    LET four_moves == Min(4 * settings.overlap_seconds * MsPerSecond
                            * Den(audio, settings),
                          tiled[i].duration)
    IN  IF four_moves % 4 = 0 THEN four_moves \div 4 ELSE -1

\* min(overlap_seconds * 1000, len(chunk) // 4) ms, in ticks.
QuarterOfLength(i) ==
    Min(settings.overlap_seconds * MsPerSecond, tiled[i].audio_len \div 4)
    * Den(audio, settings)

\* C24, as stated: overlap injection leaves a one-chunk list unchanged; for two
\* or more chunks it keeps number, order, chunk_index and split_method, the
\* first chunk's start_time and the last chunk's end_time, and moves the other
\* ends (end forward, start backward), each by
\* min(overlap_seconds, the chunk's duration / 4).
C24_MovesByQuarterOfDuration ==
    OverlapInjected => OverlapFrame(QuarterOfDuration)

\* C24, amended: the same, each move being min(overlap_seconds * 1000, the
\* chunk's length in ms divided by 4 and rounded down to a whole ms).
C24_MovesByWholeMs ==
    OverlapInjected => OverlapFrame(QuarterOfLength)

\* Three or more chunks were padded, and the pad of an interior chunk was a
\* quarter of a length that is no multiple of 4 ms.
C24_Witness ==
    /\ OverlapInjected
    /\ Len(chunks) >= 3
    /\ \E i \in 2..(Len(chunks) - 1) :
          /\ tiled[i].audio_len % 4 # 0
          /\ tiled[i].audio_len \div 4 < settings.overlap_seconds * MsPerSecond
          /\ StartMove(i) > 0
          /\ EndMove(i) > 0

\* C27: after overlap injection every chunk has start_time >= 0 and
\* start_time < end_time, whatever the segmenters returned, a short first
\* silence piece followed by a long one included.
C27_StartTimeWithinStream ==
    OverlapInjected =>
        \A i \in 1..Len(chunks) :
            /\ chunks[i].start_time >= 0
            /\ chunks[i].start_time < chunks[i].end_time

\* A first silence piece shorter than the pad of the long piece after it.
C27_ShortPieceThenLong ==
    /\ OverlapInjected
    /\ silence_outcome = "chunks"
    /\ Len(tiled) >= 2
    /\ tiled[1].audio_len < overlap_duration(tiled[2], settings.overlap_seconds)
    /\ tiled[2].audio_len > tiled[1].audio_len

\* C29: whenever chunking is needed, split_audio_intelligently returns at
\* least two chunks under every split strategy, also when the silence
\* segmentation yields a single piece.
C29_AtLeastTwoChunks ==
    OverlapInjected => Len(chunks) >= 2

\* The silence segmentation found a single piece in a stream that needs
\* chunking.
C29_SinglePiece ==
    /\ OverlapInjected
    /\ silence_outcome = "chunks"
    /\ Len(silence_pieces) = 1

(***************************************************************************)
(* Claims about validate_api_key (SpecKey).                                *)
(***************************************************************************)
\* C25: validate_api_key returns True if the API key is valid and False
\* otherwise; in particular it returns False when every attempt of its test
\* transcription was rejected with an invalid-key error.
C25_VerdictIsKeyValidity ==
    pc = "key_done" =>
        /\ (run.is_valid = "True") <=> (run.api_key = "valid")
        /\ (/\ run.api_calls = max_retries
            /\ \A k \in 1..Len(run.errors) : run.errors[k] = InvalidKeyError)
           => run.is_valid = "False"

\* All three attempts were rejected with the invalid-key error.
C25_EveryAttemptRejected ==
    /\ pc = "key_done"
    /\ run.api_key = "invalid"
    /\ run.api_calls = max_retries
    /\ \A k \in 1..Len(run.errors) : run.errors[k] = InvalidKeyError

(***************************************************************************)
(* Python's float.  A float of the run (a non-negative binary64 that is a  *)
(* multiple of 2^-(FracLimbs * LimbBits), or 0) is held exactly, as the    *)
(* natural number of such units it is worth, written in base 2^LimbBits    *)
(* with the lowest limb first and no zero limb on top; <<>> is 0.  Every   *)
(* operation computes the exact result and rounds it to MantissaBits       *)
(* significant bits, to nearest, ties to even, as IEEE 754 defines /, +    *)
(* and * to do.                                                            *)
(***************************************************************************)
MantissaBits == 53
LimbBits == 15
FracLimbs == 4
GuardLimbs == 4

Base == 2 ^ LimbBits

Zeros(k) == [i \in 1..k |-> 0]

LimbAt(x, i) == IF i <= Len(x) THEN x[i] ELSE 0

\* Times Base^k, and the whole part of the division by Base^k.
ShiftLeft(x, k) == IF x = <<>> THEN <<>> ELSE Zeros(k) \o x

ShiftRight(x, k) == IF Len(x) <= k THEN <<>> ELSE SubSeq(x, k + 1, Len(x))

RECURSIVE Normalize(_)
Normalize(x) ==
    IF x = <<>> \/ x[Len(x)] # 0 THEN x ELSE Normalize(SubSeq(x, 1, Len(x) - 1))

RECURSIVE IntToLimbs(_)
IntToLimbs(k) == IF k = 0 THEN <<>> ELSE <<k % Base>> \o IntToLimbs(k \div Base)

RECURSIVE LimbsToInt(_)
LimbsToInt(x) == IF x = <<>> THEN 0 ELSE x[1] + Base * LimbsToInt(Tail(x))

\* Bit i of x, the lowest being bit 1, and the number of bits of x.
BitOf(x, i) ==
    (LimbAt(x, ((i - 1) \div LimbBits) + 1) \div (2 ^ ((i - 1) % LimbBits))) % 2

BitLen(x) ==
    IF x = <<>> THEN 0
    ELSE (Len(x) - 1) * LimbBits
         + CHOOSE k \in 1..LimbBits : 2 ^ (k - 1) <= x[Len(x)] /\ x[Len(x)] < 2 ^ k

\* 2^(i - 1): the number whose only bit is bit i.
OneBit(i) == Zeros((i - 1) \div LimbBits) \o << 2 ^ ((i - 1) % LimbBits) >>

RECURSIVE AddFrom(_, _, _, _)
AddFrom(x, y, i, carry) ==
    IF i > Max(Len(x), Len(y))
    THEN IF carry = 0 THEN <<>> ELSE <<carry>>
    ELSE LET sum == LimbAt(x, i) + LimbAt(y, i) + carry
         IN  <<sum % Base>> \o AddFrom(x, y, i + 1, sum \div Base)

\* The exact sum.
AddLimbs(x, y) == AddFrom(x, y, 1, 0)

RECURSIVE MulFrom(_, _, _, _)
MulFrom(x, k, i, carry) ==
    IF i > Len(x)
    THEN IF carry = 0 THEN <<>> ELSE <<carry>>
    ELSE LET product == x[i] * k + carry
         IN  <<product % Base>> \o MulFrom(x, k, i + 1, product \div Base)

\* The exact product with the natural number k < Base.
MulLimbs(x, k) == IF k = 0 THEN <<>> ELSE MulFrom(x, k, 1, 0)

\* Long division by the natural number d < Base, highest limb first; the
\* lowest limb of the result is 1 when a remainder was left, 0 when not.
RECURSIVE DivFrom(_, _, _, _)
DivFrom(x, i, rem, d) ==
    IF i = 0 THEN << IF rem # 0 THEN 1 ELSE 0 >>
    ELSE LET cur == rem * Base + x[i]
         IN  Append(DivFrom(x, i - 1, cur % d, d), cur \div d)

\* x with its lowest k bits cleared.
ClearLow(x, k) ==
    [i \in 1..Len(x) |->
        IF i * LimbBits <= k THEN 0
        ELSE IF (i - 1) * LimbBits >= k THEN x[i]
        ELSE x[i] - (x[i] % (2 ^ (k - (i - 1) * LimbBits)))]

\* Round to nearest, ties to even, to MantissaBits significant bits.
Round(x) ==
    IF BitLen(x) <= MantissaBits THEN x
    ELSE LET drop == BitLen(x) - MantissaBits
             above_half == \E i \in 1..(drop - 1) : BitOf(x, i) = 1
             up == BitOf(x, drop) = 1 /\ (above_half \/ BitOf(x, drop + 1) = 1)
             kept == ClearLow(x, drop)
         IN  IF up THEN AddLimbs(kept, OneBit(drop + 1)) ELSE kept

float_of_int(k) == ShiftLeft(IntToLimbs(k), FracLimbs)

\* x + y
float_add(x, y) == Round(AddLimbs(x, y))

\* x * k, k an int
float_mul(x, k) == Round(MulLimbs(x, k))

\* x / k, k an int: the quotient is taken GuardLimbs + 1 limbs below the unit
\* and rounded from there.
float_div(x, k) ==
    LET wide == ShiftLeft(x, GuardLimbs)
    IN  ShiftRight(Round(Normalize(DivFrom(wide, Len(wide), 0, k))), GuardLimbs + 1)

\* x < y
float_lt(x, y) ==
    IF Len(x) # Len(y) THEN Len(x) < Len(y)
    ELSE \E i \in 1..Len(x) :
            /\ x[i] < y[i]
            /\ \A j \in (i + 1)..Len(x) : x[j] = y[j]

float_min(x, y) == IF float_lt(y, x) THEN y ELSE x

\* int(x)
float_int(x) == LimbsToInt(ShiftRight(x, FracLimbs))

(***************************************************************************)
(* _split_by_time on the whole stream, one pass of its loop at a time, and *)
(* in floats (SpecFloat).  start_time, end_time and duration of a chunk    *)
(* are floats here.                                                        *)
(***************************************************************************)
\* len(audio_segment) / 1000.0
float_total_duration(a) == float_div(float_of_int(a.len), MsPerSecond)

\* total_duration / estimated_chunks
float_target_chunk_duration(a, s) ==
    float_div(float_total_duration(a), estimated_chunks(a, s))

\* start_time at the head of the loop: 0, then the end_time of the last chunk.
loop_start_time == IF chunks = <<>> THEN <<>> ELSE chunks[Len(chunks)].end_time

\* audio_segment[start_ms:end_ms]: a slice stops at the end of the segment.
slice_len(seg_len, start_ms, end_ms) ==
    Max(0, Min(end_ms, seg_len) - Min(start_ms, seg_len))

FloatAudioLens == 113800..113850

FloatInit ==
    /\ pc = "split_by_time"
    /\ run = IdleRun
    /\ audio \in [len : FloatAudioLens, rate : {192}]
    /\ settings \in [max_chunk_size_mb : {10},
                     overlap_seconds   : {5},
                     force_time_based  : {TRUE}]
    /\ needs_chunking(audio, settings)
    /\ silence_outcome = "untried"
    /\ silence_pieces = <<>>
    /\ alarm = NoAlarm
    /\ tiled = <<>>
    /\ chunks = <<>>
    /\ chunk_results = <<>>
    /\ combined = NoResult
    /\ recombined = NoResult

\* One pass of "while start_time < total_duration".
TimeLoopBody ==
    /\ pc = "split_by_time"
    /\ float_lt(loop_start_time, float_total_duration(audio))
    /\ LET end_time == float_min(float_add(loop_start_time,
                                           float_target_chunk_duration(audio, settings)),
                                 float_total_duration(audio))
           start_ms == float_int(float_mul(loop_start_time, MsPerSecond))
           end_ms   == float_int(float_mul(end_time, MsPerSecond))
           chunk_len == slice_len(audio.len, start_ms, end_ms)
       IN  chunks' = Append(chunks,
                        [audio_len    |-> chunk_len,
                         origin       |-> start_ms,
                         lead_pad     |-> 0,
                         chunk_index  |-> Len(chunks),
                         start_time   |-> loop_start_time,
                         end_time     |-> end_time,
                         duration     |-> float_div(float_of_int(chunk_len),
                                                    MsPerSecond),
                         split_method |-> "time"])
    /\ UNCHANGED <<pc, run, audio, settings, silence_outcome, silence_pieces, alarm,
                   tiled, chunk_results, combined, recombined>>

\* The loop condition is false: return chunks.
TimeLoopExit ==
    /\ pc = "split_by_time"
    /\ ~float_lt(loop_start_time, float_total_duration(audio))
    /\ pc' = "time_chunks"
    /\ tiled' = chunks
    /\ UNCHANGED <<run, audio, settings, silence_outcome, silence_pieces, alarm,
                   chunks, chunk_results, combined, recombined>>

FloatNext == TimeLoopBody \/ TimeLoopExit

SpecFloat == FloatInit /\ [][FloatNext]_vars

\* C22: when chunking is needed and the time split runs on the whole stream,
\* the loop yields exactly estimated_chunks = floor(raw bytes / max chunk
\* bytes) + 1 chunks, each of a duration greater than 0 and at most
\* target_chunk_duration = total_duration / estimated_chunks.
C22_ExactlyEstimatedChunks ==
    pc = "time_chunks" =>
        /\ Len(chunks) = estimated_chunks(audio, settings)
        /\ \A i \in 1..Len(chunks) :
              /\ float_lt(<<>>, chunks[i].duration)
              /\ ~float_lt(float_target_chunk_duration(audio, settings),
                           chunks[i].duration)

\* The loop has returned one chunk more than estimated_chunks.
C22_ExtraChunk ==
    /\ pc = "time_chunks"
    /\ Len(chunks) = estimated_chunks(audio, settings) + 1

\* The loop has returned estimated_chunks chunks.
C22_EstimatedChunks ==
    /\ pc = "time_chunks"
    /\ Len(chunks) = estimated_chunks(audio, settings)

====
